---- MODULE Spec2Model ----
(***************************************************************************)
(* Model of scripts/get_entity_ids.py: the ParliamentIDScraper incremental  *)
(* crawl (cache load, legislature loop, page loop, output, cache save),     *)
(* run several times in a row against one remote listing and one disk.      *)
(***************************************************************************)
EXTENDS Integers, Sequences, FiniteSets, Bags, TLC

\* ------------------------------------------------------------------ bounds
MaxRuns == 2            \* runs of the script in one behaviour
NumLegislatures == 2    \* options of the legislature dropdown
NumTokens == 2          \* distinct entity tokens the listing can show
RowsShown == 2          \* rows the listing shows on one page

\* ------------------------------------------------------- program constants
RESULTS_PER_PAGE == 20

Kinds == {"mp", "initiative", "attendance"}

\* TARGET_DICT: only the initiative entry carries a 'session_label'
HasSessionLabel(kind) == kind = "initiative"

\* ------------------------------------------------------- the remote listing
Legislatures == 1..NumLegislatures

\* dropdown options with a non-empty value, in document order
Options == [i \in 1..NumLegislatures |-> i]

\* result counts the listing may report; NoDigits is a counter without digits
NoDigits == -1
SmallCounts == {NoDigits, RESULTS_PER_PAGE, RESULTS_PER_PAGE + 1}
BigCounts == {0, 1, RESULTS_PER_PAGE, 5 * RESULTS_PER_PAGE, 6 * RESULTS_PER_PAGE + 3}

DigitChar == <<"0", "1", "2", "3", "4", "5", "6", "7", "8", "9">>
IsDigit(c) == \E d \in 1..10 : DigitChar[d] = c
DigitValue(c) == (CHOOSE d \in 1..10 : DigitChar[d] = c) - 1

RECURSIVE Decimal(_)
Decimal(n) ==
    IF n < 10 THEN <<DigitChar[n + 1]>>
    ELSE Append(Decimal(n \div 10), DigitChar[(n % 10) + 1])

\* text of the lblResults element, e.g. "123 Resultados encontrados";
\* "R" stands for the word Resultado(s)
CounterText(n) ==
    IF n = NoDigits THEN <<"R", " ", "e">>
    ELSE Decimal(n) \o <<" ", "R", " ", "e">>

\* the i-th entity of the listing has the id 33, 4, 200, 300, ...: ids whose
\* order as numbers is not their order as strings
TokenNumber(i) == IF i = 1 THEN 33 ELSE IF i = 2 THEN 4 ELSE 100 * (i - 1)

\* rows of page k of legislature l: the ids of the entity links (the href,
\* already split at '=', ends with the id in decimal) and the texts of the
\* session-number links. The first page of a legislature shows one entity
\* in all its rows, the second page shows that entity and others: an id
\* can come again on a later page, and a later page can bring new ids.
RowToken(l, k, j) == TokenNumber(((l + ((k - 1) * (j - 1))) % NumTokens) + 1)
RowNumber(l, t) == ((l + t) % 2) + 1
Href(t) == <<"Biografia.aspx?BID", Decimal(t)>>
PageLinks(l, k) == [j \in 1..RowsShown |-> Href(RowToken(l, k, j))]
PageNumbers(l, k) == [j \in 1..RowsShown |-> RowNumber(l, RowToken(l, k, j))]

\* a listing: the result count of every legislature, and the legislature
\* marked as selected, which is the most recent one
Sites(results) == [results : results, selected : {NumLegislatures}]

\* ------------------------------------------------------------------- state
VARIABLES
    entity,        \* self.entity, the --type of every run
    site,          \* the remote listing (unchanged for the whole behaviour)
    disk,          \* cache directory and <entity>_cache.json
    output,        \* <entity>_ids.txt: the lines this run wrote
    run,           \* number of runs started
    pc,            \* position of the running script
    full,          \* self.full
    cache,         \* self.cache
    cache_dict,    \* self.cache_dict
    id_list,       \* self.id_list: legislature -> bag of identifiers
    legislatures,  \* list handed to process_legislatures
    idx,           \* position of the for loop over legislatures
    pages,         \* pages of the legislature being processed
    page_number,   \* next page of the for loop over pages
    exc,           \* exception that ended the run ("none" if none)
    outcome,       \* per legislature: what process_legislatures did with it
    loaded,        \* cache_dict as get_cache returned it
    pagesDone,     \* per legislature: page numbers process_page completed
    events,        \* files written by main in this run, in order
    lastSaved,     \* cache_dict of the last successful cache save
    rerun,         \* this run repeats, with the cache kept, a run that saved
                   \* its cache and failed on no legislature
    driverCalls,   \* the driver calls of process_page that returned, for the
                   \* legislature being processed, in order
    past           \* the earlier runs: whether each of them had the cache
                   \* enabled and ended normally, and what they wrote to
                   \* the output file

vars == <<entity, site, disk, output, run, pc, full, cache, cache_dict,
          id_list, legislatures, idx, pages, page_number, exc, outcome,
          loaded, pagesDone, events, lastSaved, rerun, driverCalls, past>>

\* ----------------------------------------------------------------- helpers
InList(x, s) == \E i \in 1..Len(s) : s[i] = x

EmptyCache == [legislatures |-> <<>>, ids |-> {}]

\* identifiers are tuples: <<token>> for mp and initiative, <<token, number>>
\* for attendance; the token is a string of decimal digits

\* ------------------------------------------------------------ json (cache)
\* <entity>_cache.json: absent, unreadable, not JSON, or a JSON document
File(kind, legs, ids) == [kind |-> kind, legislatures |-> legs, ids |-> ids]

\* json.dump: a str becomes a JSON string, a tuple becomes a JSON array
JsonValue(id) ==
    IF Len(id) = 1 THEN [j |-> "string", v |-> id] ELSE [j |-> "array", v |-> id]

\* main, lines 246-250: list(set), then json.dump; the order of the array
\* is that of the set and is not kept: get_cache makes a set of it again
JsonDump(d) == File("json", d.legislatures, {JsonValue(id) : id \in d.ids})

\* get_cache, lines 123-124: json.load, then set(): a JSON array loads as a
\* list, which is unhashable
JsonLoad(f) ==
    IF \E x \in f.ids : x.j = "array"
    THEN [exc |-> "TypeError", cache_dict |-> EmptyCache]
    ELSE [exc |-> "none",
          cache_dict |-> [legislatures |-> f.legislatures,
                          ids |-> {x.v : x \in f.ids}]]

\* the cache file never read
get_cacheNotRead(c, d) ==
    [exc |-> "none", cache_dict |-> EmptyCache,
     dir |-> IF c /\ d.dir = "missing" THEN "dir" ELSE d.dir]

\* get_cache(self): the record returned (or the exception raised) and the
\* state of the cache directory afterwards
get_cache(c, d) ==
    IF ~c THEN [exc |-> "none", cache_dict |-> EmptyCache, dir |-> d.dir]
    ELSE IF d.dir = "missing"
    THEN [exc |-> "none", cache_dict |-> EmptyCache, dir |-> "dir"]
    ELSE IF d.dir = "blocked"
    THEN [exc |-> "none", cache_dict |-> EmptyCache, dir |-> "blocked"]
    ELSE IF d.file.kind \in {"absent", "unreadable"}
    THEN [exc |-> "none", cache_dict |-> EmptyCache, dir |-> "dir"]
    ELSE IF d.file.kind = "corrupt"
    THEN [exc |-> "ValueError", cache_dict |-> EmptyCache, dir |-> "dir"]
    ELSE [exc |-> JsonLoad(d.file).exc,
          cache_dict |-> JsonLoad(d.file).cache_dict,
          dir |-> "dir"]

InitialDisks ==
    {[dir |-> d, file |-> File("absent", <<>>, {})] : d \in {"missing", "blocked"}}
    \cup {[dir |-> "dir", file |-> File(k, <<>>, {})] :
             k \in {"absent", "unreadable", "corrupt"}}

\* -------------------------------------------------------------- extraction
\* href.rsplit('=')[1]
HrefId(href) == href[2]

\* the numbers zipped in the opposite order
get_idsCrossed(kind, links, numbers) ==
    IF kind = "attendance"
    THEN {<<HrefId(links[i]), numbers[(Len(numbers) + 1) - i]>> :
             i \in 1..(IF Len(links) < Len(numbers) THEN Len(links) ELSE Len(numbers))}
    ELSE {<<HrefId(links[i])>> : i \in 1..Len(links)}

\* get_ids(self): the set of identifiers of one page
get_ids(kind, links, numbers) ==
    IF kind = "attendance"
    THEN {<<HrefId(links[i]), numbers[i]>> :
             i \in 1..(IF Len(links) < Len(numbers) THEN Len(links) ELSE Len(numbers))}
    ELSE {<<HrefId(links[i])>> : i \in 1..Len(links)}

\* ---------------------------------------------------------------- counting
\* re.search(r'(\d+)', text): the first maximal run of digits, 0 if none
FirstDigit(text) ==
    IF \E i \in 1..Len(text) : IsDigit(text[i])
    THEN CHOOSE i \in 1..Len(text) :
            IsDigit(text[i]) /\ \A h \in 1..(i - 1) : ~IsDigit(text[h])
    ELSE 0

RECURSIVE DigitRunEnd(_, _)
DigitRunEnd(text, i) ==
    IF i < Len(text) /\ IsDigit(text[i + 1]) THEN DigitRunEnd(text, i + 1) ELSE i

\* int(): base-10 value of a run of digits
RECURSIVE IntOf(_)
IntOf(ds) ==
    IF Len(ds) = 0 THEN 0
    ELSE 10 * IntOf(SubSeq(ds, 1, Len(ds) - 1)) + DigitValue(ds[Len(ds)])

\* int(re.search(r'(\d+)', results_element.text).group())
ParseResults(text) ==
    IntOf(SubSeq(text, FirstDigit(text), DigitRunEnd(text, FirstDigit(text))))

\* the division rounded down
PageCountFloor(results) == results \div RESULTS_PER_PAGE

\* math.ceil computed one too high at exact multiples
PageCountPlusOne(results) == (results \div RESULTS_PER_PAGE) + 1

\* math.ceil(results / RESULTS_PER_PAGE)
PageCount(results) ==
    IF results % RESULTS_PER_PAGE = 0
    THEN results \div RESULTS_PER_PAGE
    ELSE (results \div RESULTS_PER_PAGE) + 1

\* the key of a sort of the tokens as strings: the digits, left to right
TokenAsString(id) ==
    LET d == id[1]
        at(i) == IF i <= Len(d) THEN DigitValue(d[i]) + 1 ELSE 0
    IN (at(1) * 121) + (at(2) * 11) + at(3)

\* the sort key of main: int(x), int(x[0]) for attendance
Token(id) == IntOf(id[1])

\* ------------------------------------------------------------ process_page
\* the seen set not subtracted
NewIdsUnfiltered(entity_ids, seen) == entity_ids

\* line 195: entity_ids - self.cache_dict['ids']
NewIds(entity_ids, seen) == entity_ids \ seen

\* the seen set never updated
SeenNotUpdated(c, seen, entity_ids) == seen

\* = in place of |=
SeenReplaced(c, seen, entity_ids) == IF c THEN entity_ids ELSE seen

\* the test of self.cache left out
SeenAlwaysUpdated(c, seen, entity_ids) == seen \cup entity_ids

\* lines 196-197: if self.cache: self.cache_dict['ids'] |= entity_ids
SeenAfter(c, seen, entity_ids) == IF c THEN seen \cup entity_ids ELSE seen

\* ------------------------------------------------------------ exceptions
\* no try/except around process_legislature
HandlesNothing(e) == FALSE

\* process_legislatures: except WebDriverException
Handles(e) == e = "WebDriverException"

\* the test of self.full left out
ShouldSkipCached(l) == InList(l, cache_dict.legislatures)

\* process_legislatures, lines 148-151: the legislature is skipped
ShouldSkip(l) == InList(l, cache_dict.legislatures) /\ full

NoOutcome == [l \in Legislatures |-> "pending"]
NoPages == [l \in Legislatures |-> <<>>]
NoIds == [l \in Legislatures |-> EmptyBag]

\* -------------------------------------------------------------------- Init
InitWith(results, disks, runs) ==
    /\ entity \in Kinds
    /\ site \in Sites(results)
    /\ disk \in disks
    /\ output = <<>>
    /\ run = runs
    /\ pc = "idle"
    /\ full = FALSE
    /\ cache = FALSE
    /\ cache_dict = EmptyCache
    /\ id_list = NoIds
    /\ legislatures = <<>>
    /\ idx = 1
    /\ pages = 0
    /\ page_number = 1
    /\ exc = "none"
    /\ outcome = NoOutcome
    /\ loaded = EmptyCache
    /\ pagesDone = NoPages
    /\ events = <<>>
    /\ lastSaved = EmptyCache
    /\ rerun = FALSE
    /\ driverCalls = <<>>
    /\ past = [chain |-> runs = 0, written |-> {}]

Init == InitWith([Legislatures -> SmallCounts], InitialDisks, 0)

\* ----------------------------------------------------------------- actions
\* an exception leaves the script: the process ends
Abort(e) ==
    /\ pc' = "aborted"
    /\ exc' = e

\* an exception raised inside process_legislature(legislatures[idx])
Raise(e) ==
    IF Handles(e)
    THEN /\ pc' = "loop"
         /\ idx' = idx + 1
         /\ outcome' = [outcome EXCEPT ![legislatures[idx]] = "failed"]
         /\ exc' = exc
    ELSE /\ Abort(e)
         /\ idx' = idx
         /\ outcome' = [outcome EXCEPT ![legislatures[idx]] = "raised"]

\* ParliamentIDScraper(args.type, driver, args.full, args.cache)
Construct(f, c) ==
    /\ pc \in {"idle", "done", "aborted"}
    /\ run < MaxRuns
    /\ run' = run + 1
    /\ rerun' = /\ pc = "done" /\ cache /\ c /\ f = full
                 /\ events = <<"output", "cache">>
                 /\ \A l \in Legislatures : outcome[l] # "failed"
    /\ full' = f
    /\ cache' = c
    /\ id_list' = NoIds
    /\ LET r == get_cache(c, disk) IN
        /\ disk' = [disk EXCEPT !.dir = r.dir]
        /\ cache_dict' = r.cache_dict
        /\ loaded' = r.cache_dict
        /\ \/ /\ r.exc # "none"
              /\ Abort(r.exc)
           \/ /\ r.exc = "none"       \* driver.get(self.url) fails
              /\ Abort("WebDriverException")
           \/ /\ r.exc = "none"
              /\ pc' = "main"
              /\ exc' = "none"
    /\ legislatures' = <<>>
    /\ idx' = 1
    /\ pages' = 0
    /\ page_number' = 1
    /\ outcome' = NoOutcome
    /\ pagesDone' = NoPages
    /\ events' = <<>>
    /\ output' = <<>>
    /\ driverCalls' = <<>>
    /\ past' = IF pc = "idle" THEN past
               ELSE IF past.chain /\ cache /\ pc = "done"
               THEN [chain |-> TRUE,
                     written |-> past.written
                                 \cup {output[i] : i \in 1..Len(output)}]
               ELSE [chain |-> FALSE, written |-> {}]
    /\ UNCHANGED <<entity, site, lastSaved>>

StartRun == \E f \in BOOLEAN, c \in BOOLEAN : Construct(f, c)

\* get_legislatures(self), called first by main
GetLegislatures ==
    /\ pc = "main"
    /\ \/ /\ legislatures' = IF full THEN Options ELSE <<site.selected>>
          /\ pc' = "loop"
          /\ exc' = exc
       \/ /\ Abort("WebDriverException")
          /\ legislatures' = legislatures
    /\ UNCHANGED <<entity, site, disk, output, run, full, cache, cache_dict,
                   id_list, idx, pages, page_number, outcome, loaded,
                   pagesDone, events, lastSaved, rerun,
                   driverCalls, past>>

\* process_legislatures: head of the for loop
NextLegislature ==
    /\ pc = "loop"
    /\ idx <= Len(legislatures)
    /\ IF ShouldSkip(legislatures[idx])
       THEN /\ outcome' = [outcome EXCEPT ![legislatures[idx]] = "skipped"]
            /\ idx' = idx + 1
            /\ pc' = pc
            /\ driverCalls' = driverCalls
       ELSE /\ outcome' = [outcome EXCEPT ![legislatures[idx]] = "processing"]
            /\ idx' = idx
            /\ pc' = "select"
            /\ driverCalls' = <<>>
    /\ UNCHANGED <<entity, site, disk, output, run, full, cache, cache_dict,
                   id_list, legislatures, pages, page_number, exc, loaded,
                   pagesDone, events, lastSaved, rerun, past>>

\* select_legislature(self, legislature)
SelectLegislature ==
    /\ pc = "select"
    /\ \/ /\ pc' = IF HasSessionLabel(entity) THEN "clear" ELSE "search"
          /\ UNCHANGED <<idx, outcome, exc>>
       \/ Raise("WebDriverException")
    /\ UNCHANGED <<entity, site, disk, output, run, full, cache, cache_dict,
                   id_list, legislatures, pages, page_number, loaded,
                   pagesDone, events, lastSaved, rerun,
                   driverCalls, past>>

\* clear_session(self)
ClearSession ==
    /\ pc = "clear"
    /\ \/ /\ pc' = "search"
          /\ UNCHANGED <<idx, outcome, exc>>
       \/ Raise("WebDriverException")
    /\ UNCHANGED <<entity, site, disk, output, run, full, cache, cache_dict,
                   id_list, legislatures, pages, page_number, loaded,
                   pagesDone, events, lastSaved, rerun,
                   driverCalls, past>>

\* process_legislature, lines 167-173: click Pesquisar, wait for page 1 and
\* for the results counter
TriggerSearch ==
    /\ pc = "search"
    /\ \/ /\ pc' = "count"
          /\ UNCHANGED <<idx, outcome, exc>>
       \/ Raise("WebDriverException")
    /\ UNCHANGED <<entity, site, disk, output, run, full, cache, cache_dict,
                   id_list, legislatures, pages, page_number, loaded,
                   pagesDone, events, lastSaved, rerun,
                   driverCalls, past>>

\* process_legislature, lines 174-176: read the counter, compute the pages
CountPages ==
    /\ pc = "count"
    /\ LET text == CounterText(site.results[legislatures[idx]]) IN
       \/ /\ FirstDigit(text) # 0
          /\ pages' = PageCount(ParseResults(text))
          /\ page_number' = 1
          /\ pc' = "page"
          /\ UNCHANGED <<idx, outcome, exc>>
       \/ /\ FirstDigit(text) = 0      \* re.search returns None
          /\ Raise("AttributeError")
          /\ UNCHANGED <<pages, page_number>>
       \/ /\ Raise("WebDriverException")
          /\ UNCHANGED <<pages, page_number>>
    /\ UNCHANGED <<entity, site, disk, output, run, full, cache, cache_dict,
                   id_list, legislatures, loaded, pagesDone, events,
                   lastSaved, rerun, driverCalls, past>>

\* a postback for the first page too
PostbackAlways(n) == TRUE

\* process_page, line 185: the pager is asked for every page but the first
NeedsPostback(n) == n # 1

\* process_page, lines 185-189: the calls made before the wait
Postback(n) == IF NeedsPostback(n) THEN <<<<"postback", n>>>> ELSE <<>>

\* process_page(self, page_number, legislature): execute_script, wait.until
\* and get_ids each return or raise WebDriverException
ProcessPage ==
    /\ pc = "page"
    /\ page_number <= pages
    /\ LET l == legislatures[idx]
           entity_ids == get_ids(entity, PageLinks(l, page_number),
                                 PageNumbers(l, page_number))
           waited == driverCalls \o Postback(page_number)
                                 \o <<<<"wait", page_number>>>>
       IN
       \/ /\ driverCalls' = Append(waited, <<"get_ids", page_number>>)
          /\ id_list' = [id_list EXCEPT
                            ![l] = @ (+) SetToBag(NewIds(entity_ids, cache_dict.ids))]
          /\ cache_dict' = [cache_dict EXCEPT
                               !.ids = SeenAfter(cache, @, entity_ids)]
          /\ pagesDone' = [pagesDone EXCEPT ![l] = Append(@, page_number)]
          /\ page_number' = page_number + 1
          /\ UNCHANGED <<pc, idx, outcome, exc>>
       \/ /\ NeedsPostback(page_number)        \* execute_script raises
          /\ driverCalls' = driverCalls
          /\ Raise("WebDriverException")
          /\ UNCHANGED <<id_list, cache_dict, pagesDone, page_number>>
       \/ /\ driverCalls' = driverCalls \o Postback(page_number)
          /\ Raise("WebDriverException")       \* wait.until times out
          /\ UNCHANGED <<id_list, cache_dict, pagesDone, page_number>>
       \/ /\ driverCalls' = waited             \* find_elements raises
          /\ Raise("WebDriverException")
          /\ UNCHANGED <<id_list, cache_dict, pagesDone, page_number>>
    /\ UNCHANGED <<entity, site, disk, output, run, full, cache,
                   legislatures, pages, loaded, events, lastSaved, rerun,
                   past>>

\* process_legislature, lines 179-180: the page loop is over
FinishLegislature ==
    /\ pc = "page"
    /\ page_number > pages
    /\ cache_dict' = IF cache
                     THEN [cache_dict EXCEPT
                              !.legislatures = Append(@, legislatures[idx])]
                     ELSE cache_dict
    /\ outcome' = [outcome EXCEPT ![legislatures[idx]] = "completed"]
    /\ idx' = idx + 1
    /\ pc' = "loop"
    /\ UNCHANGED <<entity, site, disk, output, run, full, cache, id_list,
                   legislatures, pages, page_number, exc, loaded, pagesDone,
                   events, lastSaved, rerun,
                   driverCalls, past>>

\* main, lines 234-235: the identifiers of all legislatures, as a set
FlatIds == UNION {BagToSet(id_list[l]) : l \in Legislatures}

\* sorted(ids, key=int) / sorted(ids, key=lambda x: int(x[0]))
\* (a stable sort of a list in set order: equal keys may come out either way)
RECURSIVE SortedLines(_)
SortedLines(ids) ==
    IF ids = {} THEN {<<>>}
    ELSE LET first == {x \in ids : \A y \in ids : Token(x) <= Token(y)}
         IN UNION {{<<x>> \o s : s \in SortedLines(ids \ {x})} : x \in first}

\* main, lines 232-244: write <entity>_ids.txt
WriteOutput ==
    /\ pc = "loop"
    /\ idx > Len(legislatures)
    /\ output' \in SortedLines(FlatIds)
    /\ events' = Append(events, "output")
    /\ pc' = "save"
    /\ UNCHANGED <<entity, site, disk, run, full, cache, cache_dict, id_list,
                   legislatures, idx, pages, page_number, exc, outcome,
                   loaded, pagesDone, lastSaved, rerun,
                   driverCalls, past>>

\* main, lines 245-250: write <entity>_cache.json
SaveCache ==
    /\ pc = "save"
    /\ IF ~cache
       THEN /\ pc' = "done"
            /\ UNCHANGED <<disk, events, lastSaved, exc>>
       ELSE IF disk.dir = "dir"
       THEN /\ disk' = [disk EXCEPT !.file = JsonDump(cache_dict)]
            /\ events' = Append(events, "cache")
            /\ lastSaved' = cache_dict
            /\ pc' = "done"
            /\ exc' = exc
       ELSE /\ Abort("OSError")       \* open() in a directory that is not there
            /\ UNCHANGED <<disk, events, lastSaved>>
    /\ UNCHANGED <<entity, site, output, run, full, cache, cache_dict,
                   id_list, legislatures, idx, pages, page_number, outcome,
                   loaded, pagesDone, rerun,
                   driverCalls, past>>

Next ==
    \/ StartRun
    \/ GetLegislatures
    \/ NextLegislature
    \/ SelectLegislature
    \/ ClearSession
    \/ TriggerSearch
    \/ CountPages
    \/ ProcessPage
    \/ FinishLegislature
    \/ WriteOutput
    \/ SaveCache

Spec == Init /\ [][Next]_vars

\* the same program against listings of up to seven pages (every legislature
\* reporting the same count), started with a cache directory that holds no
\* cache file or does not exist yet, for the last of the runs (the earlier
\* ones were made without cache and have left nothing)
InitPages ==
    InitWith({[l \in Legislatures |-> n] : n \in BigCounts},
             {d \in InitialDisks : d.dir # "blocked" /\ d.file.kind = "absent"},
             MaxRuns - 1)
SpecPages == InitPages /\ [][Next]_vars

\* ------------------------------------------------------ terms of the claims
\* the number of pages a count of n results fills: the least k with
\* RESULTS_PER_PAGE * k >= n
CeilPages(n) ==
    CHOOSE k \in 0..n : RESULTS_PER_PAGE * k >= n /\ (k = 0 \/ RESULTS_PER_PAGE * (k - 1) < n)

\* the identifiers the listing holds for legislature l
ListedIds(l) ==
    IF site.results[l] = NoDigits THEN {}
    ELSE UNION {get_ids(entity, PageLinks(l, k), PageNumbers(l, k)) :
                    k \in 1..CeilPages(site.results[l])}

\* the identifiers extracted so far from the pages of legislature l
ExtractedIds(l) ==
    UNION {get_ids(entity, PageLinks(l, pagesDone[l][i]), PageNumbers(l, pagesDone[l][i])) :
              i \in 1..Len(pagesDone[l])}

\* the pages of legislature l, among those processed, that listed id
PagesListing(l, id) ==
    {i \in 1..Len(pagesDone[l]) :
        id \in get_ids(entity, PageLinks(l, pagesDone[l][i]), PageNumbers(l, pagesDone[l][i]))}

\* the elements of a sequence
Range(s) == {s[i] : i \in 1..Len(s)}

\* process_legislatures has returned and main has written the output file
OutputWritten == InList("output", events)
CacheWritten == InList("cache", events)

\* ---------------------------------------------------------------------- C1
\* C1: a driver error while a legislature is processed never leaves
\* process_legislatures; the failed legislature is not marked processed
\* (unless the loaded cache already listed it); and once the output is
\* written every legislature of the run was skipped, failed or completed,
\* each completed one having had all its pages processed and all its
\* identifiers that the loaded cache did not hold written to the output.
C1_PartitionIsolation ==
    /\ \A l \in Legislatures :
          outcome[l] = "raised" => exc # "WebDriverException"
    /\ \A l \in Legislatures :
          outcome[l] = "failed" =>
             \/ ~InList(l, cache_dict.legislatures)
             \/ InList(l, loaded.legislatures)
    /\ OutputWritten =>
          \A i \in 1..Len(legislatures) :
             LET l == legislatures[i] IN
             /\ outcome[l] \in {"skipped", "failed", "completed"}
             /\ outcome[l] = "completed" =>
                   /\ ExtractedIds(l) = ListedIds(l)
                   /\ (ListedIds(l) \ loaded.ids) \subseteq Range(output)

\* a run that ended normally although its first legislature failed after a
\* page was processed, with the identifiers of the second one in the output
C1_Witness ==
    /\ pc = "done"
    /\ legislatures = Options
    /\ outcome[1] = "failed"
    /\ pagesDone[1] # <<>>
    /\ outcome[2] = "completed"
    /\ ListedIds(2) # {}
    /\ ListedIds(2) \subseteq Range(output)

\* ---------------------------------------------------------------------- C2
\* C2: a results counter without digits makes its legislature a failed one
\* (not marked processed), and the exception does not end the run.
C2_MalformedCounterFailsPartition ==
    /\ exc # "AttributeError"
    /\ \A l \in Legislatures :
          (site.results[l] = NoDigits /\ outcome[l] \notin {"pending", "processing", "skipped"})
          => /\ outcome[l] = "failed"
             /\ \/ ~InList(l, cache_dict.legislatures)
                \/ InList(l, loaded.legislatures)

\* ---------------------------------------------------------------------- C3
\* C3: a run with caching enabled that repeats, in the same mode, a run with
\* caching enabled that failed on no legislature and saved its cache, loads
\* that cache and writes an output without any identifier.
C3_SecondRunWritesNothing ==
    rerun =>
       /\ exc \notin {"TypeError", "ValueError"}
       /\ ~CacheWritten => loaded = lastSaved
       /\ OutputWritten => output = <<>>

\* the same, for the kinds whose identifiers are bare tokens
C3_HoldsForBareTokens == entity # "attendance" => C3_SecondRunWritesNothing

C5_PageCountFormula ==
    \A l \in Legislatures :
       /\ \A i \in 1..Len(pagesDone[l]) : pagesDone[l][i] = i
       /\ pagesDone[l] # <<>> => Len(pagesDone[l]) <= CeilPages(site.results[l])
       /\ outcome[l] = "completed" => Len(pagesDone[l]) = CeilPages(site.results[l])
       /\ (outcome[l] = "processing" /\ pc = "page") => pages = CeilPages(site.results[l])

\* a legislature of 123 results completed after 7 pages
C5_Witness ==
    \E l \in Legislatures :
       /\ site.results[l] = 6 * RESULTS_PER_PAGE + 3
       /\ outcome[l] = "completed"
       /\ pagesDone[l] = <<1, 2, 3, 4, 5, 6, 7>>

\* ---------------------------------------------------------------------- C6
\* C6: whenever process_legislatures decides on a legislature, it skips it
\* if and only if caching is enabled, the legislature is in the cache's
\* list of processed legislatures and the run is a full one.
C6_SkipPolicy ==
    [][\A l \in Legislatures :
          (outcome[l] = "pending" /\ outcome'[l] # "pending" /\ run' = run)
          => (outcome'[l] = "skipped"
                <=> (cache /\ full /\ InList(l, cache_dict.legislatures)))]_vars

\* a full run that skipped one legislature and completed another
C6_Witness ==
    /\ full
    /\ cache
    /\ \E l, m \in Legislatures : outcome[l] = "skipped" /\ outcome[m] = "completed"

\* ---------------------------------------------------------------------- C7
\* C7: a run with caching enabled that finds a cache file written by an
\* earlier run loads it without an exception and gets the record that was
\* saved: the same list of legislatures and the same set of identifiers.
C7_CacheRoundTrip ==
    (pc # "idle" /\ cache /\ disk.file.kind = "json" /\ ~CacheWritten)
    => /\ exc # "TypeError"
       /\ loaded = lastSaved

\* the same, for the kinds whose identifiers are bare tokens
C7_HoldsForBareTokens == entity # "attendance" => C7_CacheRoundTrip

\* ---------------------------------------------------------------------- C8
\* C8: get_cache never raises, and it returns the empty record when caching
\* is disabled, when the directory cannot be created and when the file is
\* absent, unreadable or corrupt.
C8_PermissiveLoad ==
    /\ exc \notin {"ValueError", "TypeError"}
    /\ (/\ pc # "idle"
        /\ ~CacheWritten
        /\ \/ ~cache
           \/ disk.dir = "blocked"
           \/ disk.file.kind \in {"absent", "unreadable", "corrupt"})
       => loaded = EmptyCache

\* ---------------------------------------------------------------------- C9
\* C9: a run with caching requested whose cache directory cannot be created
\* skips nothing, attempts no cache write, and ends normally after writing
\* the output file.
C9_DirectoryFailureNotFatal ==
    (pc # "idle" /\ cache /\ disk.dir = "blocked")
    => /\ exc # "OSError"
       /\ \A l \in Legislatures : outcome[l] # "skipped"
       /\ ~CacheWritten

\* --------------------------------------------------------------------- C10
\* C10: the cache is written only after the output; a run whose
\* process_legislatures returned ends with the cache written if and only if
\* caching is enabled; and the file written holds the record in memory.
C10_OutputThenCache ==
    /\ CacheWritten => events = <<"output", "cache">>
    /\ (OutputWritten /\ pc \in {"done", "aborted"}) => (CacheWritten <=> cache)
    /\ CacheWritten =>
          /\ disk.file = JsonDump(cache_dict)
          /\ \A l \in Legislatures :
                /\ ExtractedIds(l) \subseteq cache_dict.ids
                /\ outcome[l] = "completed" => InList(l, cache_dict.legislatures)

\* the same, for runs whose cache directory exists
C10_HoldsWithDirectory == disk.dir # "blocked" => C10_OutputThenCache

\* C11: in a run with caching disabled the cache record is the empty one from
\* the constructor on, no step of the crawl (process_page,
\* process_legislature) changes its legislatures or its ids, and neither the
\* cache directory nor the cache file is touched, up to the end of the run.
C11_NoCacheFrame ==
    [][~cache' => /\ cache_dict' = EmptyCache
                  /\ loaded' = EmptyCache
                  /\ disk' = disk
                  /\ lastSaved' = lastSaved
                  /\ ~InList("cache", events')]_vars

\* a run without cache, after a run that saved identifiers, has processed
\* pages, completed a legislature and ended
C11_Witness ==
    /\ ~cache
    /\ pc = "done"
    /\ disk.file.kind = "json"
    /\ disk.file.ids # {}
    /\ FlatIds # {}
    /\ \E l \in Legislatures : outcome[l] = "completed" /\ pagesDone[l] # <<>>

\* ---------------------------------------------------------------------- C12
\* the number a token is the decimal form of
ValueOf(token) ==
    CHOOSE n \in {TokenNumber(i) : i \in 1..NumTokens} : Decimal(n) = token

\* C12: the output file holds exactly the identifiers of the run result of
\* all legislatures, each on one line only (also one listed for two
\* legislatures), in ascending order of the integer value of the token: 4
\* comes before 33, though "33" sorts before "4" as a string.
C12_OutputSortedByNumber ==
    OutputWritten =>
        /\ \A l \in Legislatures : \A id \in BagToSet(id_list[l]) :
               \E i \in 1..Len(output) : output[i] = id
        /\ \A i \in 1..Len(output) :
               \E l \in Legislatures : BagIn(output[i], id_list[l])
        /\ \A i, j \in 1..Len(output) :
               /\ i # j => output[i] # output[j]
               /\ i < j => ValueOf(output[i][1]) <= ValueOf(output[j][1])

\* the run result holds 33 and 4 for two legislatures each, and the output is
\* the two lines 4, 33
C12_Witness ==
    /\ OutputWritten
    /\ entity = "mp"
    /\ \A l \in 1..2 : /\ BagIn(<<<<"4">>>>, id_list[l])
                        /\ BagIn(<<<<"3", "3">>>>, id_list[l])
    /\ output = << <<<<"4">>>>, <<<<"3", "3">>>> >>

\* ---------------------------------------------------------------------- C13
\* C13: identifiers are unique by their token: neither the run result, nor
\* the seen set of the cache, nor the output file holds two identifiers with
\* the same token, also when the listing shows the token with two different
\* session numbers.
C13_UniqueByToken ==
    /\ \A x, y \in FlatIds : x[1] = y[1] => x = y
    /\ \A x, y \in cache_dict.ids : x[1] = y[1] => x = y
    /\ \A i, j \in 1..Len(output) : output[i][1] = output[j][1] => i = j

\* ---------------------------------------------------------------------- C14
\* what page k of legislature l shows, row by row: the token of the row with
\* the session number of the same row for attendance, the token alone for
\* the other kinds
RowsOf(l, k) ==
    IF entity = "attendance"
    THEN {<<Decimal(RowToken(l, k, j)), RowNumber(l, RowToken(l, k, j))>> :
             j \in 1..RowsShown}
    ELSE {<<Decimal(RowToken(l, k, j))>> : j \in 1..RowsShown}

\* C14: what is extracted from a page is exactly the set of its rows, each
\* token paired with the number at the same position for attendance and
\* bare for the other kinds: without cache the run result of a legislature
\* is the rows of its processed pages, with cache the seen set is what was
\* loaded plus the rows of all processed pages.
C14_AttendancePairing ==
    LET rows(l) == UNION {RowsOf(l, pagesDone[l][i]) : i \in 1..Len(pagesDone[l])}
    IN /\ ~cache => \A l \in Legislatures : BagToSet(id_list[l]) = rows(l)
       /\ cache => cache_dict.ids = loaded.ids \cup UNION {rows(l) : l \in Legislatures}

\* an attendance page with two rows of different numbers has been processed
C14_Witness ==
    /\ entity = "attendance"
    /\ \E l \in Legislatures :
          /\ pagesDone[l] # <<>>
          /\ BagIn(<<<<"4">>, 2>>, id_list[l])
          /\ BagIn(<<<<"3", "3">>, 1>>, id_list[l])

\* ---------------------------------------------------------------------- C15
\* C15: within a run no step removes anything from the cache record: the
\* ids of before are ids after, and the legislatures of before are the
\* first legislatures after. A step that adds a legislature adds, at the
\* end, the one legislature being processed, whose select, search and count
\* have succeeded (the run is at its page loop), whose pages 1..pages have
\* all been processed, pages being the number of pages its count fills, and
\* which has not failed.
C15_CacheRecordGrows ==
    [][run' = run =>
         LET before == cache_dict.legislatures
             after == cache_dict'.legislatures
         IN /\ cache_dict.ids \subseteq cache_dict'.ids
            /\ Len(before) <= Len(after)
            /\ SubSeq(after, 1, Len(before)) = before
            /\ after # before =>
                  LET l == legislatures[idx] IN
                  /\ after = Append(before, l)
                  /\ pc = "page"
                  /\ outcome[l] = "processing"
                  /\ outcome'[l] = "completed"
                  /\ pagesDone[l] = [k \in 1..CeilPages(site.results[l]) |-> k]
                  /\ \A k \in 1..CeilPages(site.results[l]) :
                        InList(<<"get_ids", k>>, driverCalls)]_vars

\* a run has added a legislature of two pages to the cache record, and has
\* not added another one that failed after a page
C15_Witness ==
    /\ cache
    /\ cache_dict.ids # {}
    /\ \E l \in Legislatures :
          /\ InList(l, cache_dict.legislatures)
          /\ pagesDone[l] = <<1, 2>>
    /\ \E l \in Legislatures :
          /\ outcome[l] = "failed"
          /\ pagesDone[l] # <<>>
          /\ ~InList(l, cache_dict.legislatures)

\* ---------------------------------------------------------------------- C16
\* C16: over runs with the cache enabled, full or not, no legislature occurs
\* twice in the legislatures of the cache record, in memory or in the saved
\* cache file.
C16_NoDuplicatePartitions ==
    /\ \A i, j \in 1..Len(cache_dict.legislatures) :
          cache_dict.legislatures[i] = cache_dict.legislatures[j] => i = j
    /\ \A i, j \in 1..Len(disk.file.legislatures) :
          disk.file.legislatures[i] = disk.file.legislatures[j] => i = j

\* ---------------------------------------------------------------------- C17
\* the driver calls of a legislature of n pages that all succeed: for page 1
\* the wait for its page indicator and the extraction, for every later page
\* k the postback for Page$k, then the wait, then the extraction
RECURSIVE ProtocolCalls(_)
ProtocolCalls(n) ==
    IF n = 0 THEN <<>>
    ELSE ProtocolCalls(n - 1)
         \o (IF n > 1 THEN <<<<"postback", n>>>> ELSE <<>>)
         \o <<<<"wait", n>>, <<"get_ids", n>>>>

\* C17: the driver calls made for a legislature are always the first calls
\* of the protocol of its pages 1, 2, ..., pages: no postback for page 1, for
\* a later page k one postback, before the wait for k, and the extraction
\* of k only after that wait has returned; in the page loop the calls are
\* exactly the protocol of the pages before the next one, and the pages
\* processed are 1, 2, ... in this order.
C17_PagingProtocol ==
    /\ \E n \in 0..Len(ProtocolCalls(pages)) :
          driverCalls = SubSeq(ProtocolCalls(pages), 1, n)
    /\ pc = "page" => driverCalls = ProtocolCalls(page_number - 1)
    /\ \A l \in Legislatures : pagesDone[l] = [k \in 1..Len(pagesDone[l]) |-> k]

\* a legislature has failed at the wait for its third page: two pages were
\* processed, the postback for the third was made, nothing was extracted
C17_Witness ==
    /\ pc = "loop"
    /\ \E l \in Legislatures : outcome[l] = "failed" /\ pagesDone[l] = <<1, 2>>
    /\ driverCalls = <<<<"wait", 1>>, <<"get_ids", 1>>,
                       <<"postback", 2>>, <<"wait", 2>>, <<"get_ids", 2>>,
                       <<"postback", 3>>>>

\* ---------------------------------------------------------------------- C18
\* C18: with the cache enabled, at every point of a run, the identifiers in
\* the run result of all legislatures together (those that fail later
\* included) are the identifiers of the seen set that were not loaded at
\* startup; so the output file, once written, holds every identifier this
\* run added to the seen set.
C18_RunResultIsNewlySeen ==
    cache =>
        /\ \A id \in cache_dict.ids \ loaded.ids :
               \E l \in Legislatures : BagIn(id, id_list[l])
        /\ \A l \in Legislatures :
               BagToSet(id_list[l]) \subseteq cache_dict.ids \ loaded.ids
        /\ OutputWritten => Range(output) = cache_dict.ids \ loaded.ids

\* a run over a loaded cache that already holds identifiers, in which a
\* legislature failed after a page was processed
C18_Witness ==
    /\ cache
    /\ OutputWritten
    /\ loaded.ids # {}
    /\ output # <<>>
    /\ \E l \in Legislatures :
          outcome[l] = "failed" /\ pagesDone[l] # <<>> /\ id_list[l] # EmptyBag

\* ---------------------------------------------------------------------- C19
\* all the rows the listing holds for legislature l
AllRows(l) == UNION {RowsOf(l, k) : k \in 1..CeilPages(site.results[l])}

\* C19: with the cache enabled, every legislature in the legislatures of the
\* cache record has all the identifiers the listing holds for it in the ids
\* of the record; and the same is true of every cache file saved.
C19_ProcessedMeansSeen ==
    /\ cache =>
          \A i \in 1..Len(cache_dict.legislatures) :
             AllRows(cache_dict.legislatures[i]) \subseteq cache_dict.ids
    /\ \A i \in 1..Len(disk.file.legislatures) :
          \A id \in AllRows(disk.file.legislatures[i]) :
             JsonValue(id) \in disk.file.ids

\* a second run has loaded a cache with a legislature in it, has completed
\* another legislature of two pages and has saved the cache
C19_Witness ==
    /\ cache
    /\ pc = "done"
    /\ CacheWritten
    /\ loaded.legislatures # <<>>
    /\ \E l \in Legislatures :
          /\ ~InList(l, loaded.legislatures)
          /\ InList(l, cache_dict.legislatures)
          /\ pagesDone[l] = <<1, 2>>
          /\ ~(AllRows(l) \subseteq loaded.ids)

\* ---------------------------------------------------------------------- C20
\* C20: over runs with the cache enabled that all ended normally, the cache
\* file being kept from one run to the next, the output file of a run holds
\* no identifier that the output of an earlier run held; and every
\* identifier of a legislature completed in the run, one that failed in an
\* earlier run after some of its pages included, has been written by this
\* run or by an earlier one, hence by exactly one.
C20_WrittenOnce ==
    (past.chain /\ cache /\ OutputWritten) =>
        /\ Range(output) \cap past.written = {}
        /\ \A l \in Legislatures :
              outcome[l] = "completed" =>
                 AllRows(l) \subseteq (past.written \cup Range(output))

\* the first run wrote 4, from the first page of legislature 1, which then
\* failed; the second run, a full one, has completed legislature 1 and has
\* written 33, which its second page brought
C20_Witness ==
    /\ past.chain
    /\ past.written = {<<<<"4">>>>}
    /\ cache
    /\ full
    /\ loaded = [legislatures |-> <<>>, ids |-> {<<<<"4">>>>}]
    /\ pc = "done"
    /\ outcome[1] = "completed"
    /\ pagesDone[1] = <<1, 2>>
    /\ output = << <<<<"3", "3">>>> >>
====
